---- MODULE Spec2Model ----
(***************************************************************************)
(* Model of arxiv_mcp_server/tools/download.py: the download_paper tool.   *)
(*                                                                         *)
(* handle_download is a synchronous function; several invocations may be   *)
(* in progress at once, each on its own thread of control.  One step of    *)
(* the model is one Python statement of one invocation (statements that    *)
(* touch only locals are folded into the next statement that touches       *)
(* shared state).  The shared state is the module-level dict               *)
(* conversion_statuses, the ConversionStatus objects it refers to, the     *)
(* storage directory with its .pdf/.md files, and the wall clock.          *)
(* The remote repository and the conversion library are collaborators:     *)
(* a call to them returns or raises, chosen nondeterministically; which     *)
(* papers the repository holds is fixed for the run.  datetime.now() never  *)
(* runs backwards.  Nothing but this program changes the storage directory. *)
(***************************************************************************)
EXTENDS Integers, Sequences, FiniteSets, TLC

\* ------------------------------------------------------------------ bounds
NumRequests == 3        \* invocations of handle_download
MaxThreads  == 2        \* invocations in progress at the same time
NumPapers   == 1        \* distinct paper identifiers requested
MaxClock    == 2        \* the clock saturates here

Requests == 1..NumRequests
PaperIdOf(i) == <<"paper", i>>
PaperIds == {PaperIdOf(i) : i \in 1..NumPapers}

\* ------------------------------------------------------- Python values
None    == <<>>                  \* Optional[T]: None, or a 1-tuple holding T
Some(x) == <<x>>
Str(o)  == IF o = None THEN "None" ELSE o[1]       \* str() inside an f-string

NoKey == "<absent>"              \* marks a key the arguments dict lacks
ArgumentObjects ==
    [paper_id : PaperIds \cup {<<NoKey>>}, check_status : {"True", "False", NoKey}]

STORAGE_PATH == "STORAGE_PATH"
Suffixes == {".md", ".pdf"}

\* get_paper_path, the value it returns: storage_path / f"{paper_id}{suffix}"
get_paper_path(paper_id, suffix) == <<STORAGE_PATH>> \o paper_id \o <<suffix>>

Paths == {get_paper_path(p, s) : p \in PaperIds, s \in Suffixes}

\* (mutant) the location of the downloaded .pdf instead
resource_uri_Pdf(paper_id) == <<"file://">> \o get_paper_path(paper_id, ".pdf")

\* f"file://{get_paper_path(paper_id, '.md')}"
resource_uri(paper_id) == <<"file://">> \o get_paper_path(paper_id, ".md")

\* datetime.isoformat()
isoformat(t) == <<"iso8601", t>>

\* A file is absent, opened for writing and not yet (or never) completed, or
\* completely written.  Path.exists() is true of the last two.
FileStates == {"absent", "partial", "complete"}

VARIABLES
    storage_dir,          \* does the storage directory exist
    fs,                   \* Paths -> FileStates
    heap,                 \* the ConversionStatus objects ever constructed
    conversion_statuses,  \* the global dict: paper_id -> index into heap
    clock,                \* last value datetime.now() returned
    arxiv,                \* the papers the remote repository holds
    pc,                   \* per request: the statement it is about to run
    locals,               \* per request: paper_id, check_status, status; in
                          \* the converter: its status (cstatus) and exception e;
                          \* whether it was called after a fetch of its paper
                          \* had failed (after_stranding) or while the entry of
                          \* its paper was at error (after_error); and what its
                          \* conversion failed with, if it did (failure)
    response,             \* the payload returned last, and what had been asked
    hist                  \* per paper: how many entries, fetches, conversions;
                          \* has a failed fetch left its entry at downloading

vars == <<storage_dir, fs, heap, conversion_statuses, clock, arxiv,
          pc, locals, response, hist>>

shared == <<storage_dir, fs, heap, conversion_statuses, clock, arxiv>>

NoLocals    ==
    [paper_id |-> None, check_status |-> FALSE,
     status |-> None, cstatus |-> None, e |-> None, after_stranding |-> FALSE,
     after_error |-> FALSE, failure |-> None]
NoPayload   == [status |-> "<none>", message |-> <<>>]
NoResponse  ==
    [request |-> 0, paper_id |-> None, check_status |-> FALSE,
     after_stranding |-> FALSE, after_error |-> FALSE, failure |-> None,
     payload |-> NoPayload]
NoHist      == [created |-> 0, fetched |-> 0, converted |-> 0, stranded |-> FALSE]

\* ------------------------------------------------------------ filesystem
\* Path.exists()
exists(path) == fs[path] # "absent"

\* storage_path.mkdir(parents=True, exist_ok=True) inside get_paper_path:
\* a no-op on an existing directory, otherwise it creates the directory or
\* raises OSError (permissions, disk full).
MkdirOutcomes == IF storage_dir THEN {"ok"} ELSE {"ok", "OSError"}

\* ------------------------------------------------------- ConversionStatus
\* ConversionStatus(paper_id=paper_id, status="downloading", started_at=now)
ConversionStatus(paper_id, now) ==
    [paper_id |-> paper_id, status |-> "downloading", started_at |-> now,
     completed_at |-> None, error |-> None]

\* conversion_statuses.get(paper_id): the object's index, or None
DictGet(paper_id) ==
    IF paper_id \in DOMAIN conversion_statuses
    THEN Some(conversion_statuses[paper_id]) ELSE None

\* the entry the dict currently holds for a tracked paper
Entry(paper_id) == heap[conversion_statuses[paper_id]]

\* datetime.now(): the wall clock, which does not run backwards
NowValues == {clock, IF clock < MaxClock THEN clock + 1 ELSE clock}

\* --------------------------------------------------- except clauses, 229-247
ExceptionClasses ==
    {"KeyError", "OSError", "AttributeError", "HTTPError", "RuntimeError"}

\* (mutant) no clause for StopIteration: the generic clause takes it
ExceptClause_GenericOnly(kind) ==
    IF kind \in ExceptionClasses \cup {"StopIteration"} THEN "L242" ELSE "propagate"

\* (mutant) no generic clause: only StopIteration is caught
ExceptClause_StopIterationOnly(kind) ==
    IF kind = "StopIteration" THEN "L230" ELSE "propagate"

\* which clause of handle_download's try statement takes an exception
ExceptClause(kind) ==
    IF kind = "StopIteration" THEN "L230"
    ELSE IF kind \in ExceptionClasses THEN "L242"
    ELSE "propagate"

\* lines 230-240
NotFoundPayload(paper_id) ==
    [status |-> "error", message |-> <<"Paper ", paper_id, " not found on arXiv">>]

\* lines 242-247
GenericErrorPayload(str_e) ==
    [status |-> "error", message |-> <<"Error: ", str_e>>]

\* The caller of invocation r receives payload.
Respond(r, payload) ==
    [request |-> r, paper_id |-> locals[r].paper_id,
     check_status |-> locals[r].check_status,
     after_stranding |-> locals[r].after_stranding,
     after_error |-> locals[r].after_error, failure |-> locals[r].failure,
     payload |-> payload]

\* An exception of class kind, with str(e) = str_e, raised in the try block
\* of request r: the matching clause returns, or the exception leaves
\* handle_download.
Raise(r, kind, str_e) ==
    LET clause == ExceptClause(kind) IN
    /\ locals' = [locals EXCEPT ![r] = NoLocals]
    /\ pc' = [pc EXCEPT ![r] = IF clause = "propagate" THEN "raised" ELSE "done"]
    /\ response' = Respond(r,
            IF clause = "L230" THEN NotFoundPayload(locals[r].paper_id)
            ELSE IF clause = "L242" THEN GenericErrorPayload(str_e)
            ELSE NoPayload)

\* return [types.TextContent(type="text", text=json.dumps(payload))]
Return(r, payload) ==
    /\ locals' = [locals EXCEPT ![r] = NoLocals]
    /\ pc' = [pc EXCEPT ![r] = "done"]
    /\ response' = Respond(r, payload)

Goto(r, label) ==
    /\ pc' = [pc EXCEPT ![r] = label]
    /\ UNCHANGED response

\* the same, assigning no local
Jump(r, label) ==
    /\ Goto(r, label)
    /\ UNCHANGED locals

\* ------------------------------------------------------------------ Init
\* A fresh process: the status store is empty.  The storage directory may be
\* left from earlier runs, with the .pdf and .md of papers converted then.
Init ==
    /\ storage_dir \in BOOLEAN
    /\ fs \in [Paths -> FileStates \ {"partial"}]
    /\ \A p \in PaperIds :
          fs[get_paper_path(p, ".md")] = fs[get_paper_path(p, ".pdf")]
    /\ (\E q \in Paths : fs[q] # "absent") => storage_dir
    /\ heap = <<>>
    /\ conversion_statuses = [p \in {} |-> 0]
    /\ clock = 1
    /\ arxiv \in SUBSET PaperIds
    /\ pc = [r \in Requests |-> "idle"]
    /\ locals = [r \in Requests |-> NoLocals]
    /\ response = NoResponse
    /\ hist = [p \in PaperIds |-> NoHist]

\* ------------------------------------------------------- handle_download
\* arguments.get("check_status", False)
CheckStatusOf(a) == a.check_status = "True"

\* the invocations in progress
Running == {q \in Requests : pc[q] \notin {"idle", "done", "raised"}}

\* the entry of the paper is at phase error
ConversionHasFailed(paper_id) ==
    /\ paper_id \in DOMAIN conversion_statuses
    /\ Entry(paper_id).status = "error"

\* Invocation r of handle_download, with arguments a.  Invocations are
\* numbered in the order they are made.
\* 94-98: paper_id = arguments["paper_id"]; check_status = arguments.get(...)
Call(r, a) ==
    /\ pc[r] = "idle"
    /\ \A q \in Requests : q < r => pc[q] # "idle"
    /\ Cardinality(Running) < MaxThreads
    /\ IF a.paper_id = <<NoKey>>
       THEN Raise(r, "KeyError", "'paper_id'")
       ELSE /\ locals' = [locals EXCEPT
                           ![r].paper_id = a.paper_id,
                           ![r].check_status = CheckStatusOf(a),
                           ![r].after_stranding = hist[a.paper_id].stranded,
                           ![r].after_error = ConversionHasFailed(a.paper_id)]
            /\ Goto(r, IF CheckStatusOf(a) THEN "L99" ELSE "L146")
    /\ UNCHANGED <<shared, hist>>

\* 99-100: status = conversion_statuses.get(paper_id); if not status:
L99(r) ==
    /\ pc[r] = "L99"
    /\ locals' = [locals EXCEPT ![r].status = DictGet(locals[r].paper_id)]
    /\ Goto(r, IF DictGet(locals[r].paper_id) = None THEN "L101" ELSE "L126")
    /\ UNCHANGED <<shared, hist>>

\* 102-113
ReadyPayload(paper_id) ==
    [status |-> "success", message |-> <<"Paper is ready">>,
     resource_uri |-> resource_uri(paper_id)]

\* (mutant) the untracked, unconverted paper reported under another status
UnknownPayload_NotFound ==
    [status |-> "not_found", message |-> <<"No download or conversion in progress">>]

\* 114-124
UnknownPayload ==
    [status |-> "unknown", message |-> <<"No download or conversion in progress">>]

\* 101-124: if get_paper_path(paper_id, ".md").exists(): return ...; return ...
L101(r) ==
    /\ pc[r] = "L101"
    /\ \E m \in MkdirOutcomes :
          IF m = "OSError"
          THEN /\ Raise(r, "OSError", "mkdir failed")
               /\ UNCHANGED storage_dir
          ELSE /\ storage_dir' = TRUE
               /\ Return(r, IF exists(get_paper_path(locals[r].paper_id, ".md"))
                            THEN ReadyPayload(locals[r].paper_id)
                            ELSE UnknownPayload)
    /\ UNCHANGED <<fs, heap, conversion_statuses, clock, arxiv, hist>>

\* (mutant) the error detail is left out of the status report
StatusPayload_NoError(s) ==
    [status |-> s.status,
     started_at |-> isoformat(s.started_at),
     completed_at |-> IF s.completed_at # None
                      THEN isoformat(s.completed_at[1]) ELSE None,
     error |-> None,
     message |-> <<"Paper conversion ", s.status>>]

\* 126-143: the payload built from the fields of the object status refers to
StatusPayload(s) ==
    [status |-> s.status,
     started_at |-> isoformat(s.started_at),
     completed_at |-> IF s.completed_at # None
                      THEN isoformat(s.completed_at[1]) ELSE None,
     error |-> s.error,
     message |-> <<"Paper conversion ", s.status>>]

L126(r) ==
    /\ pc[r] = "L126"
    /\ Return(r, StatusPayload(heap[locals[r].status[1]]))
    /\ UNCHANGED <<shared, hist>>

\* 147-158
AlreadyAvailablePayload(paper_id) ==
    [status |-> "success", message |-> <<"Paper already available">>,
     resource_uri |-> resource_uri(paper_id)]

\* (mutant) the artifact counts only for a paper the status store does not track
AlreadyConverted_Untracked(paper_id) ==
    exists(get_paper_path(paper_id, ".md")) /\ paper_id \notin DOMAIN conversion_statuses

\* 146: get_paper_path(paper_id, ".md").exists()
AlreadyConverted(paper_id) == exists(get_paper_path(paper_id, ".md"))

\* 145-158: if get_paper_path(paper_id, ".md").exists(): return ...
L146(r) ==
    /\ pc[r] = "L146"
    /\ \E m \in MkdirOutcomes :
          IF m = "OSError"
          THEN /\ Raise(r, "OSError", "mkdir failed")
               /\ UNCHANGED storage_dir
          ELSE /\ storage_dir' = TRUE
               /\ IF AlreadyConverted(locals[r].paper_id)
                  THEN Return(r, AlreadyAvailablePayload(locals[r].paper_id))
                  ELSE Jump(r, "L161")
    /\ UNCHANGED <<fs, heap, conversion_statuses, clock, arxiv, hist>>

\* 161: if paper_id in conversion_statuses:
AlreadyInProgress(paper_id) == paper_id \in DOMAIN conversion_statuses

L161(r) ==
    /\ pc[r] = "L161"
    /\ Jump(r, IF AlreadyInProgress(locals[r].paper_id) THEN "L162" ELSE "L181")
    /\ UNCHANGED <<shared, hist>>

\* 162: status = conversion_statuses[paper_id]
L162(r) ==
    /\ pc[r] = "L162"
    /\ locals' = [locals EXCEPT ![r].status = DictGet(locals[r].paper_id)]
    /\ Goto(r, "L163")
    /\ UNCHANGED <<shared, hist>>

\* 163-174
InProgressPayload(s) ==
    [status |-> s.status,
     message |-> <<"Paper conversion ", s.status>>,
     started_at |-> isoformat(s.started_at)]

L163(r) ==
    /\ pc[r] = "L163"
    /\ Return(r, InProgressPayload(heap[locals[r].status[1]]))
    /\ UNCHANGED <<shared, hist>>

\* conversion_statuses[paper_id] = obj, obj being a newly constructed object
DictStore(paper_id, ref) ==
    [p \in DOMAIN conversion_statuses \cup {paper_id} |->
        IF p = paper_id THEN ref ELSE conversion_statuses[p]]

\* 177-183: pdf_path = get_paper_path(paper_id, ".pdf"); client = ...;
\* conversion_statuses[paper_id] = ConversionStatus(..., started_at=now())
L181(r) ==
    /\ pc[r] = "L181"
    /\ \E m \in MkdirOutcomes :
          IF m = "OSError"
          THEN /\ Raise(r, "OSError", "mkdir failed")
               /\ UNCHANGED <<storage_dir, heap, conversion_statuses, clock, arxiv, hist>>
          ELSE /\ storage_dir' = TRUE
               /\ \E now \in NowValues :
                     /\ clock' = now
                     /\ heap' = Append(heap, ConversionStatus(locals[r].paper_id, now))
               /\ conversion_statuses' = DictStore(locals[r].paper_id, Len(heap) + 1)
               /\ hist' = [hist EXCEPT ![locals[r].paper_id].created = @ + 1]
               /\ Jump(r, "L186")
    /\ UNCHANGED <<fs, arxiv>>

\* the object that ref (a Some) refers to, with one attribute assigned
SetAttr(ref, attr, value) == [heap EXCEPT ![ref[1]] = [@ EXCEPT ![attr] = value]]

\* 186: paper = next(client.results(arxiv.Search(id_list=[paper_id])))
\* The remote lookup yields the paper, yields nothing (next raises
\* StopIteration) or fails.  What the repository holds does not change
\* while the server runs.
LookupOutcomes(paper_id) ==
    {IF paper_id \in arxiv THEN "found" ELSE "StopIteration", "HTTPError"}

\* A fetch that fails leaves the entry where it is; record the papers whose
\* entry a failed fetch left at "downloading".
Stranded(paper_id) == hist[paper_id].stranded \/ Entry(paper_id).status = "downloading"

L186(r) ==
    /\ pc[r] = "L186"
    /\ \E o \in LookupOutcomes(locals[r].paper_id) :
          IF o = "found"
          THEN /\ Jump(r, "L187")
               /\ hist' = [hist EXCEPT ![locals[r].paper_id].fetched = @ + 1]
          ELSE /\ Raise(r, o, IF o = "StopIteration" THEN "" ELSE "lookup failed")
               /\ hist' = [hist EXCEPT
                              ![locals[r].paper_id].fetched = @ + 1,
                              ![locals[r].paper_id].stranded = Stranded(locals[r].paper_id)]
    /\ UNCHANGED shared

\* 187: paper.download_pdf(dirpath=pdf_path.parent, filename=pdf_path.name)
\* writes the .pdf, or fails and may leave a truncated file.
L187(r) ==
    /\ pc[r] = "L187"
    /\ LET pdf_path == get_paper_path(locals[r].paper_id, ".pdf") IN
       \/ /\ fs' = [fs EXCEPT ![pdf_path] = "complete"]
          /\ Jump(r, "L190")
          /\ UNCHANGED hist
       \/ /\ \E left \in {fs[pdf_path], "partial"} :
                fs' = [fs EXCEPT ![pdf_path] = left]
          /\ Raise(r, "HTTPError", "download failed")
          /\ hist' = [hist EXCEPT
                         ![locals[r].paper_id].stranded = Stranded(locals[r].paper_id)]
    /\ UNCHANGED <<storage_dir, heap, conversion_statuses, clock, arxiv>>

\* 190: status = conversion_statuses[paper_id]
L190(r) ==
    /\ pc[r] = "L190"
    /\ locals' = [locals EXCEPT ![r].status = DictGet(locals[r].paper_id)]
    /\ Goto(r, "L191")
    /\ UNCHANGED <<shared, hist>>

\* 191: status.status = "converting"
L191(r) ==
    /\ pc[r] = "L191"
    /\ heap' = SetAttr(locals[r].status, "status", "converting")
    /\ Goto(r, "L68")
    /\ UNCHANGED <<storage_dir, fs, conversion_statuses, clock, arxiv, locals, hist>>

\* -------------------------------------- convert_pdf_to_markdown, 64-88
\* convert_pdf_to_markdown returns None to line 196; its frame is gone
ConvertReturn(r) ==
    /\ locals' = [locals EXCEPT ![r].cstatus = None, ![r].e = None]
    /\ Goto(r, "L197")

\* An exception in the converter's try block: control goes to line 82.
ConvertRaise(r, str_e) ==
    /\ locals' = [locals EXCEPT ![r].e = Some(str_e), ![r].failure = Some(str_e)]
    /\ Goto(r, "L84")

\* 68: markdown = pymupdf4llm.to_markdown(pdf_path, show_progress=False)
L68(r) ==
    /\ pc[r] = "L68"
    /\ \/ /\ exists(get_paper_path(locals[r].paper_id, ".pdf"))
          /\ Goto(r, "L71")
          /\ UNCHANGED locals
       \/ ConvertRaise(r, "to_markdown failed")
    /\ hist' = [hist EXCEPT ![locals[r].paper_id].converted = @ + 1]
    /\ UNCHANGED shared

\* 69-71: md_path = get_paper_path(paper_id, ".md"); open(md_path, "w")
\* creates or truncates the file, or fails.
L71(r) ==
    /\ pc[r] = "L71"
    /\ \E m \in MkdirOutcomes :
          IF m = "OSError"
          THEN /\ ConvertRaise(r, "mkdir failed")
               /\ UNCHANGED <<storage_dir, fs>>
          ELSE /\ storage_dir' = TRUE
               /\ \/ /\ fs' = [fs EXCEPT
                                 ![get_paper_path(locals[r].paper_id, ".md")] = "partial"]
                     /\ Goto(r, "L72")
                     /\ UNCHANGED locals
                  \/ /\ ConvertRaise(r, "open failed")
                     /\ UNCHANGED fs
    /\ UNCHANGED <<heap, conversion_statuses, clock, arxiv, hist>>

\* 72: f.write(markdown), and the close at the end of the with block
L72(r) ==
    /\ pc[r] = "L72"
    /\ \/ /\ fs' = [fs EXCEPT
                      ![get_paper_path(locals[r].paper_id, ".md")] = "complete"]
          /\ Goto(r, "L74")
          /\ UNCHANGED locals
       \/ /\ ConvertRaise(r, "write failed")
          /\ UNCHANGED fs
    /\ UNCHANGED <<storage_dir, heap, conversion_statuses, clock, arxiv, hist>>

\* 74-75: status = conversion_statuses.get(paper_id); if status:
L74(r) ==
    /\ pc[r] = "L74"
    /\ IF DictGet(locals[r].paper_id) = None
       THEN ConvertReturn(r)
       ELSE /\ locals' = [locals EXCEPT ![r].cstatus = DictGet(locals[r].paper_id)]
            /\ Goto(r, "L76")
    /\ UNCHANGED <<shared, hist>>

\* 76: status.status = "success"
L76(r) ==
    /\ pc[r] = "L76"
    /\ heap' = SetAttr(locals[r].cstatus, "status", "success")
    /\ Goto(r, "L77")
    /\ UNCHANGED <<storage_dir, fs, conversion_statuses, clock, arxiv, locals, hist>>

\* 77: status.completed_at = datetime.now()
L77(r) ==
    /\ pc[r] = "L77"
    /\ \E now \in NowValues :
          /\ clock' = now
          /\ heap' = SetAttr(locals[r].cstatus, "completed_at", Some(now))
    /\ ConvertReturn(r)
    /\ UNCHANGED <<storage_dir, fs, conversion_statuses, arxiv, hist>>

\* 82-85: except Exception as e: status = conversion_statuses.get(paper_id)
L84(r) ==
    /\ pc[r] = "L84"
    /\ IF DictGet(locals[r].paper_id) = None
       THEN ConvertReturn(r)
       ELSE /\ locals' = [locals EXCEPT ![r].cstatus = DictGet(locals[r].paper_id)]
            /\ Goto(r, "L86")
    /\ UNCHANGED <<shared, hist>>

\* 86: status.status = "error"
L86(r) ==
    /\ pc[r] = "L86"
    /\ heap' = SetAttr(locals[r].cstatus, "status", "error")
    /\ Goto(r, "L87")
    /\ UNCHANGED <<storage_dir, fs, conversion_statuses, clock, arxiv, locals, hist>>

\* 87: status.completed_at = datetime.now()
L87(r) ==
    /\ pc[r] = "L87"
    /\ \E now \in NowValues :
          /\ clock' = now
          /\ heap' = SetAttr(locals[r].cstatus, "completed_at", Some(now))
    /\ Goto(r, "L88")
    /\ UNCHANGED <<storage_dir, fs, conversion_statuses, arxiv, locals, hist>>

\* 88: status.error = str(e)
L88(r) ==
    /\ pc[r] = "L88"
    /\ heap' = SetAttr(locals[r].cstatus, "error", locals[r].e)
    /\ ConvertReturn(r)
    /\ UNCHANGED <<storage_dir, fs, conversion_statuses, clock, arxiv, hist>>

\* --------------------------------------- handle_download, after line 194
\* 197: status = conversion_statuses[paper_id]
L197(r) ==
    /\ pc[r] = "L197"
    /\ locals' = [locals EXCEPT ![r].status = DictGet(locals[r].paper_id)]
    /\ Goto(r, "L198")
    /\ UNCHANGED <<shared, hist>>

\* 198: if status.status == "success":
L198(r) ==
    /\ pc[r] = "L198"
    /\ Goto(r, IF heap[locals[r].status[1]].status = "success" THEN "L199" ELSE "L214")
    /\ UNCHANGED <<shared, locals, hist>>

\* (mutant) the two timestamps change places
ConvertedPayload_Swapped(paper_id, s) ==
    [status |-> "success",
     message |-> <<"Paper downloaded and converted successfully">>,
     resource_uri |-> resource_uri(paper_id),
     started_at |-> isoformat(s.completed_at[1]),
     completed_at |-> isoformat(s.started_at)]

\* 199-212
ConvertedPayload(paper_id, s) ==
    [status |-> "success",
     message |-> <<"Paper downloaded and converted successfully">>,
     resource_uri |-> resource_uri(paper_id),
     started_at |-> isoformat(s.started_at),
     completed_at |-> isoformat(s.completed_at[1])]

\* 214-227
ConversionFailedPayload(s) ==
    [status |-> "error",
     message |-> <<"Conversion failed: ", Str(s.error)>>,
     started_at |-> isoformat(s.started_at),
     completed_at |-> isoformat(s.completed_at[1]),
     error |-> s.error]

\* status.completed_at.isoformat() raises AttributeError on None
NoneTypeIsoformat == "'NoneType' object has no attribute 'isoformat'"

L199(r) ==
    /\ pc[r] = "L199"
    /\ LET s == heap[locals[r].status[1]] IN
       IF s.completed_at = None
       THEN Raise(r, "AttributeError", NoneTypeIsoformat)
       ELSE Return(r, ConvertedPayload(locals[r].paper_id, s))
    /\ UNCHANGED <<shared, hist>>

L214(r) ==
    /\ pc[r] = "L214"
    /\ LET s == heap[locals[r].status[1]] IN
       IF s.completed_at = None
       THEN Raise(r, "AttributeError", NoneTypeIsoformat)
       ELSE Return(r, ConversionFailedPayload(s))
    /\ UNCHANGED <<shared, hist>>

Next ==
    \E r \in Requests :
       \/ \E a \in ArgumentObjects : Call(r, a)
       \/ L99(r) \/ L101(r) \/ L126(r)
       \/ L146(r) \/ L161(r) \/ L162(r) \/ L163(r)
       \/ L181(r) \/ L186(r) \/ L187(r) \/ L190(r) \/ L191(r)
       \/ L68(r) \/ L71(r) \/ L72(r) \/ L74(r) \/ L76(r) \/ L77(r)
       \/ L84(r) \/ L86(r) \/ L87(r) \/ L88(r)
       \/ L197(r) \/ L198(r) \/ L199(r) \/ L214(r)

Spec == Init /\ [][Next]_vars

\* ======================================================================
\* Properties
\* ======================================================================

\* the .md artifact of paper p, as the file system holds it
MdPath(p) == <<STORAGE_PATH>> \o p \o <<".md">>
MdOnDisk(p) == fs[MdPath(p)] # "absent"

\* invocation r takes a step
Steps(r) == pc'[r] # pc[r]

StatusValues == {"success", "error", "downloading", "converting", "unknown"}

\* C1: two fetch-and-convert requests for one new identifier never both
\* create a status entry, fetch and convert: per identifier at most one
\* entry is created, at most one fetch is made and at most one conversion
\* is run.
C1_AtMostOneFetch ==
    \A p \in PaperIds :
       /\ hist[p].created <= 1
       /\ hist[p].fetched <= 1
       /\ hist[p].converted <= 1

\* C2: once the .md artifact of an identifier exists it stays, and every
\* fetch-and-convert request that finds it returns success with the
\* artifact's resource_uri and changes nothing: not the status store, not
\* the files, and no entry is created, no fetch made, no conversion run.
C2_AlreadyAvailableIsIdempotent ==
    [][ /\ \A p \in PaperIds : MdOnDisk(p) => MdOnDisk(p)'
        /\ \A r \in Requests :
              (pc[r] = "L146" /\ MdOnDisk(locals[r].paper_id) /\ Steps(r)) =>
                 /\ pc'[r] = "done"
                 /\ response'.request = r
                 /\ response'.payload =
                       [status |-> "success",
                        message |-> <<"Paper already available">>,
                        resource_uri |-> <<"file://">> \o MdPath(locals[r].paper_id)]
                 /\ UNCHANGED <<storage_dir, fs, heap, conversion_statuses, hist>>
      ]_vars

\* C2 witness: a later request answered "already available" for a paper
\* converted by an earlier one, the entry of that conversion still in the store
C2_Witness ==
    /\ response.request > 1
    /\ response.payload.message = <<"Paper already available">>
    /\ hist[response.paper_id].converted = 1
    /\ response.paper_id \in DOMAIN conversion_statuses

\* what a check-only request answers for a paper it found no entry for, when
\* path resolution succeeds
UntrackedAnswer(p) ==
    IF MdOnDisk(p)
    THEN [status |-> "success", message |-> <<"Paper is ready">>,
          resource_uri |-> <<"file://">> \o MdPath(p)]
    ELSE [status |-> "unknown", message |-> <<"No download or conversion in progress">>]

\* C3 (as claimed): a check-only request for an identifier with no entry in
\* the status store returns unknown when the .md artifact does not exist and
\* success with its resource_uri when it does, and no other status.
C3_UntrackedIsUnknownOrSuccess ==
    [][\A r \in Requests :
          /\ (pc[r] = "L99" /\ Steps(r)
                /\ locals[r].paper_id \notin DOMAIN conversion_statuses) =>
                pc'[r] = "L101"
          /\ (pc[r] = "L101" /\ Steps(r)) =>
                /\ pc'[r] = "done"
                /\ response'.payload = UntrackedAnswer(locals[r].paper_id)
      ]_vars

\* C3 (amended): the same, unless the storage directory is missing and
\* cannot be created: then the request returns status error.
C3_UntrackedIsUnknownOrSuccessOrPathError ==
    [][\A r \in Requests :
          /\ (pc[r] = "L99" /\ Steps(r)
                /\ locals[r].paper_id \notin DOMAIN conversion_statuses) =>
                pc'[r] = "L101"
          /\ (pc[r] = "L101" /\ Steps(r)) =>
                /\ pc'[r] = "done"
                /\ response'.request = r
                /\ IF storage_dir'
                   THEN response'.payload = UntrackedAnswer(locals[r].paper_id)
                   ELSE /\ ~storage_dir
                        /\ response'.payload.status = "error"
      ]_vars

\* C3 witness: a check-only request for an untracked paper without artifact
\* was told unknown
C3_Witness ==
    /\ response.check_status
    /\ response.payload.status = "unknown"
    /\ response.paper_id \notin DOMAIN conversion_statuses
    /\ ~MdOnDisk(response.paper_id)

\* C4: no step of a check-only request changes the status store (the tracked
\* identifiers, the entries, their fields), and a check-only request that
\* finds an entry reports that entry's phase, started_at, completed_at and
\* error as they are.
C4_CheckOnlyReadsOnly ==
    [][\A r \in Requests :
          ((locals[r].check_status \/ locals'[r].check_status) /\ Steps(r)) =>
             /\ UNCHANGED <<heap, conversion_statuses>>
             /\ (pc[r] = "L99" /\ locals[r].paper_id \in DOMAIN conversion_statuses) =>
                   /\ pc'[r] = "L126"
                   /\ locals'[r].status = <<conversion_statuses[locals[r].paper_id]>>
             /\ pc[r] = "L126" =>
                   LET entry == heap[locals[r].status[1]] IN
                   /\ pc'[r] = "done"
                   /\ response'.request = r
                   /\ response'.payload.status = entry.status
                   /\ response'.payload.started_at = <<"iso8601", entry.started_at>>
                   /\ response'.payload.completed_at =
                         (IF entry.completed_at = <<>> THEN <<>>
                          ELSE <<"iso8601", entry.completed_at[1]>>)
                   /\ response'.payload.error = entry.error
      ]_vars

\* C4 witness: a check-only request reported an entry at phase error, with
\* its error detail and completion time
C4_Witness ==
    /\ response.check_status
    /\ response.payload.status = "error"
    /\ response.payload.message = <<"Paper conversion ", "error">>
    /\ response.payload.error # <<>>
    /\ response.payload.completed_at # <<>>

\* C5: a success returned from the download-and-convert path means that the
\* .md artifact exists, that resource_uri is the file:// location of that
\* very path, and that completed_at is not earlier than started_at.
C5_ConvertedArtifactExists ==
    response.payload.message = <<"Paper downloaded and converted successfully">> =>
       /\ response.payload.status = "success"
       /\ ~response.check_status
       /\ MdOnDisk(response.paper_id)
       /\ response.payload.resource_uri = <<"file://">> \o MdPath(response.paper_id)
       /\ response.payload.completed_at[2] >= response.payload.started_at[2]

\* C5 witness: a conversion that returned success, some time after it started
C5_Witness ==
    /\ response.payload.message = <<"Paper downloaded and converted successfully">>
    /\ response.payload.completed_at[2] > response.payload.started_at[2]

\* C6: when the remote lookup yields no result for a new identifier, the
\* request returns status error with message 'Paper <id> not found on arXiv'
\* and the entry it created stays in the store at phase downloading, with
\* completed_at and error unset.  (The lookup may also fail outright; that
\* is the generic error, and it leaves the entry the same way.)
C6_NotFoundLeavesDownloading ==
    [][\A r \in Requests :
          LET p == locals[r].paper_id IN
          (pc[r] = "L186" /\ Steps(r) /\ p \notin arxiv) =>
             /\ pc'[r] = "done"
             /\ response'.request = r
             /\ response'.payload.status = "error"
             /\ \/ response'.payload.message = <<"Paper ", p, " not found on arXiv">>
                \/ response'.payload.message = <<"Error: ", "lookup failed">>
             /\ UNCHANGED <<heap, conversion_statuses>>
             /\ p \in DOMAIN conversion_statuses
             /\ heap[conversion_statuses[p]].status = "downloading"
             /\ heap[conversion_statuses[p]].completed_at = <<>>
             /\ heap[conversion_statuses[p]].error = <<>>
      ]_vars

\* C6 witness: a request was told its paper is not on arXiv, and the entry
\* is in the store at phase downloading
C6_Witness ==
    /\ response.request # 0
    /\ response.paper_id # <<>>
    /\ response.payload.message = <<"Paper ", response.paper_id, " not found on arXiv">>
    /\ response.paper_id \in DOMAIN conversion_statuses
    /\ heap[conversion_statuses[response.paper_id]].status = "downloading"

\* C7: no invocation of handle_download ends with an exception leaving it,
\* whatever the arguments and whatever fails; what it returns is a payload
\* whose status is success, error, downloading, converting or unknown.
C7_NeverPropagates ==
    /\ \A r \in Requests : pc[r] # "raised"
    /\ response.request # 0 => response.payload.status \in StatusValues
    /\ (\E r \in Requests : pc[r] = "done") => response.request # 0

\* C7 witness: an arguments object without paper_id was answered with an
\* error payload
C7_Witness ==
    /\ response.request # 0
    /\ response.paper_id = <<>>
    /\ response.payload = [status |-> "error", message |-> <<"Error: ", "'paper_id'">>]

\* C8 (as claimed): every response whose status is success carries a
\* resource_uri, the file:// location of the identifier's .md artifact.
C8_SuccessCarriesResourceUri ==
    response.payload.status = "success" =>
       /\ "resource_uri" \in DOMAIN response.payload
       /\ response.payload.resource_uri = <<"file://">> \o MdPath(response.paper_id)

\* C8 (amended): every response whose status is success carries that
\* resource_uri, except the ones that report the phase of a status entry
\* ("Paper conversion success": a check-only request for a tracked
\* identifier, or a fetch-and-convert request that finds the identifier
\* tracked), which carry none.
C8_SuccessCarriesResourceUriUnlessEntryReport ==
    response.payload.status = "success" =>
       IF response.payload.message = <<"Paper conversion ", "success">>
       THEN "resource_uri" \notin DOMAIN response.payload
       ELSE /\ "resource_uri" \in DOMAIN response.payload
            /\ response.payload.resource_uri = <<"file://">> \o MdPath(response.paper_id)

\* C8 witness: a check-only request for an untracked paper whose artifact is
\* on disk was told success, with the resource_uri
C8_Witness ==
    /\ response.check_status
    /\ response.payload.status = "success"
    /\ "resource_uri" \in DOMAIN response.payload
    /\ response.paper_id \notin DOMAIN conversion_statuses

\* C9: in every reachable state, every entry of the status store has
\* completed_at set exactly when its phase is success or error, and error
\* set exactly when its phase is error.
C9_TerminalFieldsMatchPhase ==
    \A p \in DOMAIN conversion_statuses :
       LET entry == heap[conversion_statuses[p]] IN
       /\ entry.completed_at # <<>> <=> entry.status \in {"success", "error"}
       /\ entry.error # <<>> <=> entry.status = "error"

\* C10: once a fetch has failed and left the entry at downloading, every
\* request made afterwards for that identifier is told downloading, and none
\* of them fetches or converts.
C10_StrandedStaysDownloading ==
    /\ (response.request # 0 /\ response.after_stranding) =>
          response.payload.status = "downloading"
    /\ \A r \in Requests :
          locals[r].after_stranding => pc[r] \in {"L99", "L126", "L146", "L161", "L162", "L163"}

\* C11: once a conversion of an identifier has failed and its entry is at
\* phase error, every fetch-and-convert request made afterwards for that
\* identifier is told error, and none of them fetches or converts.
C11_FailedConversionReportsError ==
    /\ (response.request # 0 /\ response.after_error /\ ~response.check_status) =>
          response.payload.status = "error"
    /\ \A r \in Requests :
          (locals[r].after_error /\ ~locals[r].check_status) =>
             pc[r] \in {"L146", "L161", "L162", "L163"}

\* C12: per identifier at most one status entry is ever created; once an
\* identifier is tracked, no step of any request replaces its entry by
\* another object or changes the entry's started_at.
C12_EntryCreatedOnceStartedAtFixed ==
    [][ /\ \A p \in PaperIds : hist'[p].created <= 1
        /\ \A p \in DOMAIN conversion_statuses :
              /\ p \in DOMAIN conversion_statuses'
              /\ conversion_statuses'[p] = conversion_statuses[p]
              /\ heap'[conversion_statuses[p]].started_at =
                    heap[conversion_statuses[p]].started_at
      ]_vars

TerminalPhases == {"success", "error"}

\* C13: once the entry of an identifier is at phase success or error, no
\* step changes its phase, and completed_at and error, once set, are never
\* written again; the entry the store holds for the identifier stays that
\* object.
C13_TerminalPhasesAbsorbing ==
    [][\A p \in DOMAIN conversion_statuses :
          LET before == heap[conversion_statuses[p]]
              after  == heap'[conversion_statuses'[p]] IN
          before.status \in TerminalPhases =>
             /\ after.status = before.status
             /\ before.completed_at # <<>> => after.completed_at = before.completed_at
             /\ before.error # <<>> => after.error = before.error
      ]_vars

\* the downloaded document of paper p, as the file system holds it
PdfPath(p) == <<STORAGE_PATH>> \o p \o <<".pdf">>

\* C14: the phase of a tracked identifier changes only in the order
\* downloading -> converting -> (success or error): an identifier becomes
\* tracked at downloading, goes to converting only from downloading and
\* only when its document has been fetched, and goes to success or error
\* only from converting.
C14_PhaseOrder ==
    [][\A p \in DOMAIN conversion_statuses' :
          LET after == heap'[conversion_statuses'[p]].status IN
          IF p \notin DOMAIN conversion_statuses
          THEN after = "downloading"
          ELSE LET before == heap[conversion_statuses[p]].status IN
               after # before =>
                  \/ /\ before = "downloading"
                     /\ after = "converting"
                     /\ fs[PdfPath(p)] = "complete"
                  \/ /\ before = "converting"
                     /\ after \in TerminalPhases
      ]_vars

\* C15: when the converter has returned to a fetch-and-convert request, the
\* entry the request reads at line 197 is at phase success or error, and
\* the request returns success ("Paper downloaded and converted
\* successfully") or error ("Conversion failed: ..."), with started_at and
\* completed_at; other requests for the identifier may be running.
C15_AfterConverterTerminalReport ==
    [][\A r \in Requests :
          /\ (pc[r] = "L197" /\ Steps(r)) =>
                /\ pc'[r] = "L198"
                /\ heap[locals'[r].status[1]].status \in TerminalPhases
          /\ (pc[r] \in {"L199", "L214"} /\ Steps(r)) =>
                /\ pc'[r] = "done"
                /\ response'.request = r
                /\ \/ /\ response'.payload.status = "success"
                      /\ response'.payload.message =
                            <<"Paper downloaded and converted successfully">>
                   \/ /\ response'.payload.status = "error"
                      /\ response'.payload.message[1] = "Conversion failed: "
                /\ {"started_at", "completed_at"} \subseteq DOMAIN response'.payload
      ]_vars

\* C16: in every reachable state, an entry at phase success means that the
\* .md artifact of its identifier is on disk and completely written.
C16_SuccessMeansArtifactComplete ==
    \A p \in DOMAIN conversion_statuses :
       heap[conversion_statuses[p]].status = "success" => fs[MdPath(p)] = "complete"

\* the statements of convert_pdf_to_markdown
ConverterLines == {"L68", "L71", "L72", "L74", "L76", "L77", "L84", "L86", "L87", "L88"}

\* C17: a step inside the converter stays inside it or returns to line 197,
\* whatever fails; when a converter that met a failure returns, the entry
\* of its identifier is at phase error with completed_at set and error the
\* failure's description; and the request it returns to answers status
\* error, "Conversion failed: <that description>".
C17_ConverterAbsorbsFailures ==
    [][\A r \in Requests :
          LET p == locals[r].paper_id IN
          /\ (pc[r] \in ConverterLines /\ Steps(r)) =>
                pc'[r] \in ConverterLines \cup {"L197"}
          /\ (pc[r] \in ConverterLines /\ pc'[r] = "L197"
                 /\ locals'[r].failure # <<>> /\ p \in DOMAIN conversion_statuses') =>
                LET entry == heap'[conversion_statuses'[p]] IN
                /\ entry.status = "error"
                /\ entry.completed_at # <<>>
                /\ entry.error = locals'[r].failure
          /\ (pc[r] = "L198" /\ locals[r].failure # <<>> /\ Steps(r)) =>
                pc'[r] = "L214"
          /\ (pc[r] \in {"L199", "L214"} /\ locals[r].failure # <<>> /\ Steps(r)) =>
                /\ pc'[r] = "done"
                /\ response'.request = r
                /\ response'.payload.status = "error"
                /\ response'.payload.message =
                      <<"Conversion failed: ", locals[r].failure[1]>>
      ]_vars

\* ----------------------------------------------------------- scheduling
\* a statement of invocation r, once it has been called
Run(r) ==
    \/ L99(r) \/ L101(r) \/ L126(r)
    \/ L146(r) \/ L161(r) \/ L162(r) \/ L163(r)
    \/ L181(r) \/ L186(r) \/ L187(r) \/ L190(r) \/ L191(r)
    \/ L68(r) \/ L71(r) \/ L72(r) \/ L74(r) \/ L76(r) \/ L77(r)
    \/ L84(r) \/ L86(r) \/ L87(r) \/ L88(r)
    \/ L197(r) \/ L198(r) \/ L199(r) \/ L214(r)

\* Every invocation gets to run: its thread is scheduled again and again,
\* and the calls it makes to the repository, the conversion library and the
\* file system return or raise.
FairSpec == Spec /\ \A r \in Requests : WF_vars(Run(r))

\* C18: every invocation that was called returns a response; and when the
\* fetch of a fetch-and-convert request has succeeded (the request is at
\* line 190), the entry of its identifier is at phase success or error at
\* some later time.
C18_ReturnsAndReachesTerminal ==
    /\ \A r \in Requests : (pc[r] # "idle") ~> (pc[r] = "done")
    /\ \A r \in Requests : \A p \in PaperIds :
          (pc[r] = "L190" /\ locals[r].paper_id = p) ~>
             (/\ p \in DOMAIN conversion_statuses
              /\ heap[conversion_statuses[p]].status \in TerminalPhases)

\* What a check-only request answers when it runs lines 99-143 in this
\* state: the phase of the entry, if there is one, else by the .md file.
CheckOnlyAnswer(p) ==
    IF p \in DOMAIN conversion_statuses THEN heap[conversion_statuses[p]].status
    ELSE IF MdOnDisk(p) THEN "success" ELSE "unknown"

\* What a fetch-and-convert request answers when it runs lines 146-174 in
\* this state: success if the .md file is there, else the phase of the
\* entry, if there is one; else it starts a fetch.
FetchAnswer(p) ==
    IF MdOnDisk(p) THEN "success"
    ELSE IF p \in DOMAIN conversion_statuses THEN heap[conversion_statuses[p]].status
    ELSE "<fetch>"

\* C19: in no reachable state does one kind of request answer success for
\* an identifier while the other kind, made in the same state, answers
\* error, downloading or converting.
C19_CheckOnlyAndFetchAgree ==
    \A p \in PaperIds :
       LET unfinished == {"error", "downloading", "converting"} IN
       /\ ~(FetchAnswer(p) = "success" /\ CheckOnlyAnswer(p) \in unfinished)
       /\ ~(CheckOnlyAnswer(p) = "success" /\ FetchAnswer(p) \in unfinished)

\* C20: a request returns status success for an identifier only in a state
\* where the .md artifact of that identifier is completely written: not
\* while a conversion is writing the file, and not after a write that
\* failed part-way.
C20_SuccessOnlyWhenArtifactComplete ==
    [][\A r \in Requests :
          (Steps(r) /\ pc'[r] = "done" /\ response'.payload.status = "success") =>
             fs[MdPath(locals[r].paper_id)] = "complete"
      ]_vars

====
